---------------------------- MODULE Spec2Model ----------------------------
(***************************************************************************)
(* Model of the rate-limiting middleware of the Deezer API proxy           *)
(* (src/src/middleware/rateLimiter.ts): the process-wide store, the        *)
(* periodic cleanup callback and the rateLimiter middleware, with the      *)
(* clock (Date.now()) and the client identities as inputs.                 *)
(***************************************************************************)
EXTENDS Integers, Sequences, FiniteSets, TLC

\* ------------------------------------------------------------------------
\* Configuration (CONFIG, rateLimiter.ts lines 17-32)
\* ------------------------------------------------------------------------

limit == 100

windowMs == 60 * 1000

\* ------------------------------------------------------------------------
\* Bounds of the model
\* ------------------------------------------------------------------------

\* A client stops sending once its entry's count is limit + MaxOver.
MaxOver == 2

\* The second client sends at most MaxLight requests per window.
MaxLight == 3

\* Client identities as derived by getClientIp; "unknown" is its sentinel.
Ids == {"1.2.3.4", "unknown"}

\* The identity that sends few requests per window.
LightIds == {"unknown"}

\* The readings of Date.now() the environment produces, relative to the
\* first one.
Clock == {0, 1, 1000, windowMs, windowMs + 1, windowMs + 1000}

\* The readings of Date.now() under SpecSliding and SpecFlight.
ClockSliding == {0, windowMs, windowMs + 1}

\* At most MaxInFlight requests are suspended in their route handlers at once.
MaxInFlight == 2

\* A suspended request completes before more than MaxAhead later requests of
\* its identity are checked.
MaxAhead == 2

\* Under SpecLive an identity sends at most MaxLive requests.
MaxLive == 3

VARIABLES
    now,      \* the current reading of Date.now()
    store,    \* the Map<string, RateLimitEntry>: a function on the keys present
    last,     \* per identity, the response the limiter gave to its latest request
    winStart, \* history: per identity, the time its current entry was created
    seen,     \* history: per identity, requests handled since winStart
    admitted, \* history: per identity, requests passed to next() since winStart
    overBefore, \* history: per identity, whether its current entry replaced one
              \* whose count was above the limit
    solo,     \* shadow: per identity, its entry in a run with its own requests only
    soloLast, \* shadow: per identity, its latest response in that run
    log,      \* history (SpecSliding): per identity, time -> requests passed to
              \* next() at that time, for times in (now - windowMs, now];
              \* (SpecExample): time -> requests sent at that time;
              \* (SpecLive): identity -> requests sent so far
    flight,   \* (SpecFlight) the requests suspended at await next(), in their
              \* route handlers
    out,      \* (SpecFlight) the response delivered last, if any
    swept,    \* (SpecSweep) the latest step was a run of the cleanup callback
    req,      \* (SpecIp) the request at hand: its IP headers, how far the
              \* limiter got with it, and the identity derived
    route,    \* (SpecRoute) the request in its route handler
    twin,     \* (SpecNoSweep, SpecOrigin) the store of a second run of the
              \* limiter: one that is never swept, one whose requests differ
              \* in what the limiter does not read
    twinLast  \* the latest response to each identity in the second run

vars == <<now, store, last, winStart, seen, admitted, overBefore, solo, soloLast,
          log, flight, out, swept, req, route, twin, twinLast>>

\* ------------------------------------------------------------------------
\* Helpers
\* ------------------------------------------------------------------------

Max(a, b) == IF a >= b THEN a ELSE b

\* Mutant of CeilDiv1000: Math.floor in place of Math.ceil
FloorDiv1000(x) == x \div 1000

\* Math.ceil(x / 1000) on an integer x
CeilDiv1000(x) == IF x % 1000 = 0 THEN x \div 1000 ELSE (x \div 1000) + 1

DigitChar == <<"0", "1", "2", "3", "4", "5", "6", "7", "8", "9">>

RECURSIVE Digits(_)
Digits(n) == IF n < 10 THEN <<DigitChar[n + 1]>>
             ELSE Digits(n \div 10) \o <<DigitChar[(n % 10) + 1]>>

\* Number.prototype.toString() on an integer: the decimal digits, "-" first
\* for a negative number.
toString(n) == IF n < 0 THEN <<"-">> \o Digits(0 - n) ELSE Digits(n)

\* Map.has, Map.set on a function whose domain is the set of keys present
Has(m, k) == k \in DOMAIN m

\* Mutant of MapSet: every identity written under the sentinel key
MapSetShared(m, k, v) ==
    [j \in DOMAIN m \cup {"unknown"} |-> IF j = "unknown" THEN v ELSE m[j]]

MapSet(m, k, v) == [j \in DOMAIN m \cup {k} |-> IF j = k THEN v ELSE m[j]]

EmptyMap == [j \in {} |-> 0]

\* ------------------------------------------------------------------------
\* rateLimiter (lines 101-138) as functions of the map, the identity and
\* the time
\* ------------------------------------------------------------------------

\* Mutant of StartsFresh: an expired entry is kept
StartsFreshNoExpiry(m, ip, t) == ~Has(m, ip)

\* Mutant of StartsFresh: the window end is exclusive
StartsFreshAtEnd(m, ip, t) == ~Has(m, ip) \/ t >= m[ip].resetTime

\* line 108: no entry, or the window has expired
StartsFresh(m, ip, t) == ~Has(m, ip) \/ t > m[ip].resetTime

\* Mutant of FreshEntry: the creating request is not counted
FreshEntryZero(t) == [count |-> 0, resetTime |-> t + windowMs]

\* Mutant of FreshEntry: the window ends when it starts
FreshEntryNoWindow(t) == [count |-> 1, resetTime |-> t]

\* lines 110-113: the fresh entry
FreshEntry(t) == [count |-> 1, resetTime |-> t + windowMs]

\* Mutant of Incremented: a rejected request sets the count back to 1
IncrementedResets(entry) ==
    IF entry.count > limit THEN [entry EXCEPT !.count = 1]
    ELSE [entry EXCEPT !.count = @ + 1]

\* Mutant of Incremented: every request pushes resetTime one second on
IncrementedExtends(entry) ==
    [count |-> entry.count + 1, resetTime |-> entry.resetTime + 1000]

\* Mutant of Incremented: a request that finds the entry over the limit is
\* not counted
IncrementedUnlessOver(entry) ==
    IF entry.count > limit THEN entry ELSE [entry EXCEPT !.count = @ + 1]

\* Mutant of Incremented: the request is counted twice
IncrementedTwice(entry) == [entry EXCEPT !.count = @ + 2]

\* line 117: entry.count++
Incremented(entry) == [entry EXCEPT !.count = @ + 1]

\* Mutant of CountedEntry: a lost update, the increment of a request dropped
\* while another request of the identity is suspended in its handler
CountedEntryStale(m, ip, t) ==
    IF StartsFresh(m, ip, t) THEN FreshEntry(t)
    ELSE IF \E r \in flight : r.ip = ip THEN m[ip]
    ELSE Incremented(m[ip])

\* lines 106-118: the entry after this request was counted
CountedEntry(m, ip, t) ==
    IF StartsFresh(m, ip, t) THEN FreshEntry(t) ELSE Incremented(m[ip])

\* Mutant of Remaining: the request at hand not taken off
RemainingBefore(entry) == Max(0, limit - entry.count + 1)

\* Mutant of Remaining: no clamp at 0
RemainingUnclamped(entry) == limit - entry.count

\* line 86
Remaining(entry) == Max(0, limit - entry.count)

\* lines 85-90: setRateLimitHeaders
RateLimitHeaders(entry) ==
    [h \in {"X-RateLimit-Limit", "X-RateLimit-Remaining", "X-RateLimit-Reset"} |->
        CASE h = "X-RateLimit-Limit" -> toString(limit)
          [] h = "X-RateLimit-Remaining" -> toString(Remaining(entry))
          [] h = "X-RateLimit-Reset" -> toString(entry.resetTime)]

\* Mutants of Exceeded: the comparison off by one, either way
ExceededLate(entry) == entry.count > limit + 1

ExceededEarly(entry) == entry.count >= limit

\* line 124
Exceeded(entry) == entry.count > limit

\* Mutant of RetryAfter: the whole window, whatever time has passed
RetryAfterWholeWindow(entry, t) == CeilDiv1000(windowMs)

\* line 125
RetryAfter(entry, t) == CeilDiv1000(entry.resetTime - t)

\* Mutant of RejectBody: retryAfter given in milliseconds
RejectBodyMillis(retryAfter) ==
    [error |-> "Too Many Requests",
     message |-> <<"Rate limit exceeded. Please try again in ">>
                    \o toString(retryAfter) \o <<" seconds.">>,
     retryAfter |-> retryAfter * 1000,
     limit |-> limit,
     window |-> "1 minute"]

\* lines 128-134: the JSON body of the rejection
RejectBody(retryAfter) ==
    [error |-> "Too Many Requests",
     message |-> <<"Rate limit exceeded. Please try again in ">>
                    \o toString(retryAfter) \o <<" seconds.">>,
     retryAfter |-> retryAfter,
     limit |-> limit,
     window |-> "1 minute"]

\* Mutant of Response: the rejection does not return, and falls through to
\* next()
ResponseFallsThrough(entry, t) ==
    IF Exceeded(entry)
    THEN [at |-> t, next |-> TRUE, status |-> 429,
          did |-> <<"setRateLimitHeaders", "Retry-After", "json", "next">>,
          headers |-> [h \in DOMAIN RateLimitHeaders(entry) \cup {"Retry-After"} |->
                          IF h = "Retry-After" THEN toString(RetryAfter(entry, t))
                          ELSE RateLimitHeaders(entry)[h]],
          body |-> RejectBody(RetryAfter(entry, t))]
    ELSE [at |-> t, next |-> TRUE, status |-> 0,
          did |-> <<"setRateLimitHeaders", "next">>,
          headers |-> RateLimitHeaders(entry),
          body |-> <<>>]

\* lines 120-137: the response as the limiter leaves it, with what it did in
\* the order of the code (did). next = TRUE: the request went on to next()
\* and the limiter set no status and no body (status 0).
Response(entry, t) ==
    IF Exceeded(entry)
    THEN [at |-> t, next |-> FALSE, status |-> 429,
          did |-> <<"setRateLimitHeaders", "Retry-After", "json">>,
          headers |-> [h \in DOMAIN RateLimitHeaders(entry) \cup {"Retry-After"} |->
                          IF h = "Retry-After" THEN toString(RetryAfter(entry, t))
                          ELSE RateLimitHeaders(entry)[h]],
          body |-> RejectBody(RetryAfter(entry, t))]
    ELSE [at |-> t, next |-> TRUE, status |-> 0,
          did |-> <<"setRateLimitHeaders", "next">>,
          headers |-> RateLimitHeaders(entry),
          body |-> <<>>]

\* Mutant of Expired: an entry is deleted at its last millisecond
ExpiredAtEnd(m, t) == {ip \in DOMAIN m : t >= m[ip].resetTime}

\* Mutant of Expired: an entry is deleted a whole window late
ExpiredLate(m, t) == {ip \in DOMAIN m : t > m[ip].resetTime + windowMs}

\* lines 55-59: the keys the cleanup callback deletes at time t
Expired(m, t) == {ip \in DOMAIN m : t > m[ip].resetTime}

\* ------------------------------------------------------------------------
\* Observers: they read the store and the responses and never steer them
\* ------------------------------------------------------------------------

\* f with key k bound to v
Put(f, k, v) == [j \in DOMAIN f \cup {k} |-> IF j = k THEN v ELSE f[j]]

\* f restricted to the keys in S
Only(f, S) == [j \in DOMAIN f \cap S |-> f[j]]

RECURSIVE SumOver(_, _)
SumOver(f, S) == IF S = {} THEN 0
                 ELSE LET x == CHOOSE y \in S : TRUE
                      IN f[x] + SumOver(f, S \ {x})

\* entry is a new entry for ip (created or replaced), not the old one updated
Created(ip, entry) == ~Has(store, ip) \/ entry.resetTime # store[ip].resetTime

\* No request at hand, no request in a route handler
NoRequest == [pc |-> "none"]

NoRoute == [pc |-> "none"]

\* ------------------------------------------------------------------------
\* Initial state and actions
\* ------------------------------------------------------------------------

Init ==
    /\ now = 0
    /\ store = EmptyMap
    /\ last = EmptyMap
    /\ winStart = EmptyMap
    /\ seen = EmptyMap
    /\ admitted = EmptyMap
    /\ overBefore = EmptyMap
    /\ solo = EmptyMap
    /\ soloLast = EmptyMap
    /\ log = EmptyMap
    /\ flight = {}
    /\ out = {}
    /\ swept = FALSE
    /\ req = NoRequest
    /\ route = NoRoute
    /\ twin = EmptyMap
    /\ twinLast = EmptyMap

\* The sending bound of identity ip.
CountCap(ip) == IF ip \in LightIds THEN MaxLight ELSE limit + MaxOver

MaySend(ip) == Has(store, ip) /\ now <= store[ip].resetTime
                   => store[ip].count < CountCap(ip)

\* rateLimiter, lines 101-138: one request of identity ip at the current time
RateLimiter(ip) ==
    LET entry == CountedEntry(store, ip, now)
        resp == Response(entry, now)
        new == Created(ip, entry)
        alone == CountedEntry(Only(solo, {ip}), ip, now)
    IN /\ store' = MapSet(store, ip, entry)
       /\ last' = Put(last, ip, resp)
       /\ winStart' = IF new THEN Put(winStart, ip, now) ELSE winStart
       /\ seen' = Put(seen, ip, IF new THEN 1 ELSE seen[ip] + 1)
       /\ admitted' = Put(admitted, ip, (IF new THEN 0 ELSE admitted[ip])
                                            + (IF resp.next THEN 1 ELSE 0))
       /\ overBefore' = IF new THEN Put(overBefore, ip, Has(store, ip) /\ store[ip].count > limit)
                      ELSE overBefore
       /\ solo' = Put(solo, ip, alone)
       /\ soloLast' = Put(soloLast, ip, Response(alone, now))
       /\ UNCHANGED now

\* lines 53-59: the cleanup callback, run at the current time
Cleanup ==
    /\ store' = Only(store, DOMAIN store \ Expired(store, now))
    /\ solo' = Only(solo, DOMAIN solo \ Expired(solo, now))
    /\ UNCHANGED <<now, last, winStart, seen, admitted, overBefore, soloLast>>

\* Date.now() moves on to a later reading in C.
Advance(C) ==
    /\ \E t \in C : t > now /\ now' = t
    /\ UNCHANGED <<store, last, winStart, seen, admitted, overBefore, solo, soloLast>>

Request(ip) == MaySend(ip) /\ RateLimiter(ip) /\ UNCHANGED <<log, flight, out, swept, req, route, twin, twinLast>>

\* The timer's phase relative to the requests is arbitrary: the callback may
\* run at any reading of the clock.
Sweep == Cleanup /\ UNCHANGED <<log, flight, out, swept, req, route, twin, twinLast>>

Tick == Advance(Clock) /\ UNCHANGED <<log, flight, out, swept, req, route, twin, twinLast>>

Next ==
    \/ \E ip \in Ids : Request(ip)
    \/ Sweep
    \/ Tick

Spec == Init /\ [][Next]_vars

\* ------------------------------------------------------------------------
\* SpecSliding: the same operations with the log of admitted requests kept
\* ------------------------------------------------------------------------

LogOf(ip) == IF Has(log, ip) THEN log[ip] ELSE EmptyMap

RequestLogged(ip) ==
    /\ MaySend(ip)
    /\ RateLimiter(ip)
    /\ log' = IF last'[ip].next
              THEN Put(log, ip, Put(LogOf(ip), now,
                                    IF Has(LogOf(ip), now) THEN LogOf(ip)[now] + 1 ELSE 1))
              ELSE log
    /\ UNCHANGED <<flight, out, swept, req, route, twin, twinLast>>

SweepLogged == Cleanup /\ UNCHANGED <<log, flight, out, swept, req, route, twin, twinLast>>

TickLogged ==
    /\ Advance(ClockSliding)
    /\ log' = [ip \in DOMAIN log |->
                 Only(log[ip], {t \in DOMAIN log[ip] : t > now' - windowMs})]
    /\ UNCHANGED <<flight, out, swept, req, route, twin, twinLast>>

NextSliding ==
    \/ \E ip \in Ids \ LightIds : RequestLogged(ip)
    \/ SweepLogged
    \/ TickLogged

SpecSliding == Init /\ [][NextSliding]_vars

\* ------------------------------------------------------------------------
\* SpecFlight: admitted requests stay suspended at await next() (line 137)
\* while their route handlers run, and complete in any order
\* ------------------------------------------------------------------------

\* The number of next() calls among the effects of a response
NextCalls(resp) == Cardinality({i \in DOMAIN resp.did : resp.did[i] = "next"})

\* The requests of ip checked after the suspended request r
Lag(r, ip) == IF r.win = winStart'[ip] THEN seen'[ip] - r.k ELSE seen'[ip]

\* The check step of rateLimiter (lines 102-135) runs to await next() without
\* a suspension point: it is one step. The request is its window's k-th.
RequestFlight(ip) ==
    /\ MaySend(ip)
    /\ Cardinality(flight) < MaxInFlight
    /\ RateLimiter(ip)
    /\ \A r \in flight : r.ip = ip => Lag(r, ip) <= MaxAhead
    /\ flight' = flight \cup {[ip |-> ip, win |-> winStart'[ip], k |-> seen'[ip],
                                call |-> c, resp |-> last'[ip]] :
                                   c \in 1..NextCalls(last'[ip])}
    /\ UNCHANGED <<log, out, swept, req, route, twin, twinLast>>

\* The statuses a route handler, or the notFound handler, ends with
HandlerStatus == {200, 400, 404, 502}

\* Mutant of Complete: a request that ends in an error is taken off the
\* count again
CompleteRollsBack(r) ==
    /\ \E s \in HandlerStatus :
          /\ out' = {[ip |-> r.ip, win |-> r.win, k |-> r.k, status |-> s,
                      headers |-> r.resp.headers]}
          /\ store' = IF s # 200 /\ Has(store, r.ip) /\ store[r.ip].count > 1
                      THEN [store EXCEPT ![r.ip].count = @ - 1]
                      ELSE store
    /\ flight' = flight \ {r}
    /\ UNCHANGED <<now, last, winStart, seen, admitted, overBefore, solo,
                   soloLast, log, swept, req, route, twin, twinLast>>

\* The route handler of the suspended request r returns: next() resolves,
\* rateLimiter returns (line 138) and the response goes out with the headers
\* the limiter set.
Complete(r) ==
    /\ \E s \in HandlerStatus :
          out' = {[ip |-> r.ip, win |-> r.win, k |-> r.k, status |-> s,
                   headers |-> r.resp.headers]}
    /\ flight' = flight \ {r}
    /\ UNCHANGED <<now, store, last, winStart, seen, admitted, overBefore, solo,
                   soloLast, log, swept, req, route, twin, twinLast>>

SweepFlight == Cleanup /\ UNCHANGED <<log, flight, out, swept, req, route, twin, twinLast>>

TickFlight == Advance(ClockSliding) /\ UNCHANGED <<log, flight, out, swept, req, route, twin, twinLast>>

NextFlight ==
    \/ \E ip \in Ids \ LightIds : RequestFlight(ip)
    \/ \E r \in flight : Complete(r)
    \/ SweepFlight
    \/ TickFlight

SpecFlight == Init /\ [][NextFlight]_vars

\* ------------------------------------------------------------------------
\* SpecSweep: the runs of the cleanup callback observed
\* ------------------------------------------------------------------------

\* The readings of Date.now() under SpecSweep.
ClockSweep == {0, 1, windowMs, windowMs + 1}

RequestSweep(ip) ==
    /\ MaySend(ip)
    /\ RateLimiter(ip)
    /\ swept' = FALSE
    /\ UNCHANGED <<log, flight, out, req, route, twin, twinLast>>

\* lines 53-59, with the run recorded
SweepSeen ==
    /\ Cleanup
    /\ swept' = TRUE
    /\ UNCHANGED <<log, flight, out, req, route, twin, twinLast>>

TickSweep ==
    /\ Advance(ClockSweep)
    /\ swept' = FALSE
    /\ UNCHANGED <<log, flight, out, req, route, twin, twinLast>>

NextSweep ==
    \/ \E ip \in Ids : RequestSweep(ip)
    \/ SweepSeen
    \/ TickSweep

SpecSweep == Init /\ [][NextSweep]_vars

\* ------------------------------------------------------------------------
\* SpecLive: the cleanup timer keeps firing (setInterval, lines 52-61) and
\* time keeps advancing; requests may come or not
\* ------------------------------------------------------------------------

\* The readings of Date.now() under SpecLive
ClockLive == {0, 1, windowMs, windowMs + 1, 2 * windowMs + 1, 2 * windowMs + 2}

\* The last reading of the clock under SpecLive
LastReading == CHOOSE t \in ClockLive : \A u \in ClockLive : u <= t

\* The requests identity ip has sent so far
Sent(ip) == IF Has(log, ip) THEN log[ip] ELSE 0

\* A request is sent only while the clock can still pass the end of the
\* window it may open.
RequestLive(ip) ==
    /\ Sent(ip) < MaxLive
    /\ now + windowMs < LastReading
    /\ RateLimiter(ip)
    /\ log' = Put(log, ip, Sent(ip) + 1)
    /\ UNCHANGED <<flight, out, swept, req, route, twin, twinLast>>

SweepLive == Cleanup /\ UNCHANGED <<log, flight, out, swept, req, route, twin, twinLast>>

TickLive == Advance(ClockLive) /\ UNCHANGED <<log, flight, out, swept, req, route, twin, twinLast>>

NextLive ==
    \/ \E ip \in Ids : RequestLive(ip)
    \/ SweepLive
    \/ TickLive

\* setInterval fires the callback again and again, and time does not stop;
\* nothing obliges a client to send a request.
SpecLive == Init /\ [][NextLive]_vars /\ WF_vars(SweepLive) /\ WF_vars(TickLive)

\* ------------------------------------------------------------------------
\* SpecNoSweep: two runs of the limiter on the same requests at the same
\* times; the cleanup callback runs in the first and never in the second
\* ------------------------------------------------------------------------

\* lines 101-138 in the second run: the request of identity ip at the
\* current time, on the store twin
RateLimiterTwin(ip) ==
    LET entry == CountedEntry(twin, ip, now)
    IN /\ twin' = MapSet(twin, ip, entry)
       /\ twinLast' = Put(twinLast, ip, Response(entry, now))

RequestBoth(ip) ==
    /\ MaySend(ip)
    /\ RateLimiter(ip)
    /\ RateLimiterTwin(ip)
    /\ UNCHANGED <<log, flight, out, swept, req, route>>

SweepFirst == Cleanup /\ UNCHANGED <<log, flight, out, swept, req, route, twin, twinLast>>

TickBoth == Advance(Clock) /\ UNCHANGED <<log, flight, out, swept, req, route, twin, twinLast>>

NextNoSweep ==
    \/ \E ip \in Ids : RequestBoth(ip)
    \/ SweepFirst
    \/ TickBoth

SpecNoSweep == Init /\ [][NextNoSweep]_vars

\* ------------------------------------------------------------------------
\* SpecExample: one identity sends 100 requests at t = 0, one at t = 1000 and
\* one at t = 61000, from an empty store; the cleanup callback may run at
\* any point
\* ------------------------------------------------------------------------

ExampleIp == "1.2.3.4"

\* The requests sent so far at each time of the script
ExampleSent(t) == IF Has(log, t) THEN log[t] ELSE 0

\* The number of requests the script sends at time t
ExampleBurst(t) == IF t = 0 THEN limit ELSE 1

ExampleRequest ==
    /\ ExampleSent(now) < ExampleBurst(now)
    /\ RateLimiter(ExampleIp)
    /\ log' = Put(log, now, ExampleSent(now) + 1)
    /\ UNCHANGED <<flight, out, swept, req, route, twin, twinLast>>

ExampleSweep == Cleanup /\ UNCHANGED <<log, flight, out, swept, req, route, twin, twinLast>>

\* The clock moves on when the requests of the current time were sent.
ExampleTick ==
    /\ ExampleSent(now) = ExampleBurst(now)
    /\ now < 61000
    /\ now' = IF now = 0 THEN 1000 ELSE 61000
    /\ UNCHANGED <<store, last, winStart, seen, admitted, overBefore, solo,
                   soloLast, log, flight, out, swept, req, route, twin, twinLast>>

NextExample ==
    \/ ExampleRequest
    \/ ExampleSweep
    \/ ExampleTick

SpecExample == Init /\ [][NextExample]_vars

\* ------------------------------------------------------------------------
\* SpecIp: getClientIp (lines 70-80) and rateLimiter on a request with any
\* IP headers. A string is the sequence of its characters.
\* ------------------------------------------------------------------------

\* lines 25-31: CONFIG.ipHeaders, in order
ipHeaders == <<"x-forwarded-for", "x-real-ip", "cf-connecting-ip", "x-client-ip",
               "x-appwrite-client-ip">>

\* line 79: the sentinel identity
unknown == <<"u", "n", "k", "n", "o", "w", "n">>

\* c.req.header gives undefined for a header the request does not carry.
Undefined == <<"undefined">>

\* What a call on undefined ends in
TypeError == <<"TypeError">>

\* line 72: c.req.header(header); h maps the headers the request carries to
\* their values
HeaderValue(h, header) == IF header \in DOMAIN h THEN h[header] ELSE Undefined

\* Mutant of Truthy: no test of the value before it is split
TruthyAlways(value) == TRUE

\* line 73: if (value), false for undefined and for the empty string
Truthy(value) == value # Undefined /\ value # <<>>

\* Mutant of FirstElement: the first element that is not empty
RECURSIVE FirstFilledElement(_)
FirstFilledElement(value) ==
    IF value = Undefined THEN TypeError
    ELSE IF value = <<>> THEN <<>>
    ELSE IF Head(value) = "," THEN FirstFilledElement(Tail(value))
    ELSE <<Head(value)>> \o (IF Len(value) > 1 /\ value[2] # ","
                             THEN FirstFilledElement(Tail(value)) ELSE <<>>)

\* line 74: value.split(',')[0], the characters before the first comma; a
\* TypeError on undefined
RECURSIVE FirstElement(_)
FirstElement(value) ==
    IF value = Undefined THEN TypeError
    ELSE IF value = <<>> \/ Head(value) = "," THEN <<>>
    ELSE <<Head(value)>> \o FirstElement(Tail(value))

RECURSIVE TrimStart(_)
TrimStart(str) ==
    IF str # <<>> /\ Head(str) = " " THEN TrimStart(Tail(str)) ELSE str

RECURSIVE TrimEnd(_)
TrimEnd(str) ==
    IF str # <<>> /\ str[Len(str)] = " " THEN TrimEnd(SubSeq(str, 1, Len(str) - 1))
    ELSE str

\* Mutant of Trim: trimStart in place of trim
TrimStartOnly(str) == IF str = TypeError THEN TypeError ELSE TrimStart(str)

\* line 74: ?.trim()
Trim(str) == IF str = TypeError THEN TypeError ELSE TrimEnd(TrimStart(str))

\* lines 71-78: the loop over CONFIG.ipHeaders from the i-th header on, and
\* line 79
RECURSIVE ClientIpFrom(_, _)
ClientIpFrom(h, i) ==
    IF i > Len(ipHeaders) THEN unknown
    ELSE LET value == HeaderValue(h, ipHeaders[i])
         IN IF Truthy(value)
            THEN LET ip == Trim(FirstElement(value))
                 IN IF ip # <<>> THEN ip ELSE ClientIpFrom(h, i + 1)
            ELSE ClientIpFrom(h, i + 1)

\* lines 70-80
getClientIp(h) == ClientIpFrom(h, 1)

\* The values a request may carry in the i-th header: empty, blank, an
\* address, a padded list, a list with an empty first element. The address
\* names the header it came in.
HeaderValues(i) ==
    LET d == DigitChar[i + 1]
    IN <<<<>>, <<" ">>, <<d>>, <<" ", d, " ", ",", "9">>, <<",", d>>>>

\* The position of a header in CONFIG.ipHeaders
IndexOf(header) == CHOOSE i \in 1..Len(ipHeaders) : ipHeaders[i] = header

\* The IP headers of a request: each one absent (pick 0) or with one of its
\* values
RequestHeaders ==
    {[header \in {ipHeaders[i] : i \in {j \in 1..Len(ipHeaders) : pick[j] # 0}} |->
         HeaderValues(IndexOf(header))[pick[IndexOf(header)]]] :
     pick \in [1..Len(ipHeaders) -> 0..Len(HeaderValues(1))]}

\* The time of the request under SpecIp
NowIp == 2 * windowMs

\* The entries the store may hold for the identity when the request arrives:
\* expired, at its last millisecond, open; young, full, over the limit
EntriesIp ==
    {[count |-> c, resetTime |-> r] :
        c \in {1, limit, limit + 1}, r \in {NowIp - 1, NowIp, NowIp + 1000}}

\* The store holds entry e for identity ip, all its requests having come at
\* the start of its window.
StoreHolds(ip, e) ==
    LET m == Put(EmptyMap, ip, e)
        start == e.resetTime - windowMs
    IN /\ store = m
       /\ solo = m
       /\ last = Put(EmptyMap, ip, Response(e, start))
       /\ soloLast = Put(EmptyMap, ip, Response(e, start))
       /\ winStart = Put(EmptyMap, ip, start)
       /\ seen = Put(EmptyMap, ip, e.count)
       /\ admitted = Put(EmptyMap, ip, IF e.count > limit THEN limit ELSE e.count)
       /\ overBefore = Put(EmptyMap, ip, FALSE)

StoreEmpty ==
    /\ store = EmptyMap
    /\ solo = EmptyMap
    /\ last = EmptyMap
    /\ soloLast = EmptyMap
    /\ winStart = EmptyMap
    /\ seen = EmptyMap
    /\ admitted = EmptyMap
    /\ overBefore = EmptyMap

InitIp ==
    /\ now = NowIp
    /\ \E h \in RequestHeaders :
          /\ req = [pc |-> "arrived", headers |-> h]
          /\ \/ StoreEmpty
             \/ \E e \in EntriesIp : StoreHolds(getClientIp(h), e)
    /\ log = EmptyMap
    /\ flight = {}
    /\ out = {}
    /\ swept = FALSE
    /\ route = NoRoute
    /\ twin = EmptyMap
    /\ twinLast = EmptyMap

\* rateLimiter, lines 101-138, on the request at hand: line 102 derives the
\* identity; an exception there leaves the limiter before it touches the
\* store.
CheckIp ==
    /\ req.pc = "arrived"
    /\ LET ip == getClientIp(req.headers)
       IN IF ip = TypeError
          THEN /\ req' = [pc |-> "threw", headers |-> req.headers]
               /\ UNCHANGED <<now, store, last, winStart, seen, admitted,
                              overBefore, solo, soloLast>>
          ELSE /\ RateLimiter(ip)
               /\ req' = [pc |-> "decided", headers |-> req.headers, ip |-> ip]
    /\ UNCHANGED <<log, flight, out, swept, route, twin, twinLast>>

NextIp == CheckIp

SpecIp == InitIp /\ [][NextIp]_vars

\* ------------------------------------------------------------------------
\* SpecOrigin: two runs of the limiter whose requests differ in what the
\* limiter does not read: path, method, query, network origin, and an IP
\* header of lower priority than the one that gives the identity
\* ------------------------------------------------------------------------

\* The IP headers that set the identity in both runs: an address in the
\* second header, no header at all
BaseHeaders ==
    {[h \in {"x-real-ip"} |-> <<"1">>],
     [h \in {} |-> <<>>]}

\* The request of the first run
PlainRequest(base) ==
    [headers |-> base, path |-> "/artist/27/top", method |-> "GET",
     query |-> "", origin |-> "203.0.113.1"]

\* What the request of the second run differs in
Variations == {"same", "path", "method", "query", "origin", "header", "all"}

\* base with an address in the last header of CONFIG.ipHeaders, when base
\* has a header before it
WithLowerHeader(base) ==
    IF DOMAIN base = {} THEN base
    ELSE [h \in DOMAIN base \cup {"x-appwrite-client-ip"} |->
             IF h \in DOMAIN base THEN base[h] ELSE <<"9">>]

\* The request of the second run
VariedRequest(base, v) ==
    [headers |-> IF v \in {"header", "all"} THEN WithLowerHeader(base) ELSE base,
     path |-> IF v \in {"path", "all"} THEN "/search" ELSE "/artist/27/top",
     method |-> IF v \in {"method", "all"} THEN "HEAD" ELSE "GET",
     query |-> IF v \in {"query", "all"} THEN "q=a&limit=5" ELSE "",
     origin |-> IF v \in {"origin", "all"} THEN "198.51.100.2" ELSE "203.0.113.1"]

\* Mutant of ClientKey: one counter per identity and path
ClientKeyWithPath(request) == getClientIp(request.headers) \o <<request.path>>

\* line 102: const ip = getClientIp(c), the one thing rateLimiter reads from
\* the request
ClientKey(request) == getClientIp(request.headers)

\* The sending bound under SpecOrigin: the identity given by a header is
\* the heavy one.
MaySendKey(ip) ==
    Has(store, ip) /\ now <= store[ip].resetTime
        => store[ip].count < (IF Head(ip) = "1" THEN limit + MaxOver ELSE 2)

\* One request in each run, at the same time
RequestPair(base, v) ==
    LET a == PlainRequest(base)
        b == VariedRequest(base, v)
    IN /\ MaySendKey(ClientKey(a))
       /\ RateLimiter(ClientKey(a))
       /\ RateLimiterTwin(ClientKey(b))
       /\ req' = [pc |-> "pair", a |-> a, b |-> b]
       /\ UNCHANGED <<log, flight, out, swept, route>>

\* The cleanup callback in both runs
SweepPair ==
    /\ Cleanup
    /\ twin' = Only(twin, DOMAIN twin \ Expired(twin, now))
    /\ UNCHANGED <<log, flight, out, swept, req, route, twinLast>>

\* The readings of Date.now() under SpecOrigin
ClockOrigin == {0, windowMs + 1}

TickPair ==
    /\ Advance(ClockOrigin)
    /\ UNCHANGED <<log, flight, out, swept, req, route, twin, twinLast>>

NextOrigin ==
    \/ \E base \in BaseHeaders, v \in Variations : RequestPair(base, v)
    \/ SweepPair
    \/ TickPair

SpecOrigin == Init /\ [][NextOrigin]_vars

\* ------------------------------------------------------------------------
\* Reading the responses
\* ------------------------------------------------------------------------

\* s is a non-empty sequence of decimal digits
IsDigits(s) == Len(s) > 0 /\ \A k \in 1..Len(s) : \E d \in 1..10 : s[k] = DigitChar[d]

DigitValue(c) == (CHOOSE d \in 1..10 : DigitChar[d] = c) - 1

RECURSIVE ParseDigits(_)
ParseDigits(s) == IF Len(s) = 0 THEN 0
                  ELSE 10 * ParseDigits(SubSeq(s, 1, Len(s) - 1)) + DigitValue(s[Len(s)])

Header(ip, h) == last[ip].headers[h]

RemainingOf(resp) == ParseDigits(resp.headers["X-RateLimit-Remaining"])

Rejected(ip) == Has(last, ip) /\ ~last[ip].next

\* ------------------------------------------------------------------------
\* SpecRoute: the route handler GET /artist/:id/top (routes/artist.ts lines
\* 46-82) with validate (lib/validation.ts) and fetchDeezer (lib/deezer.ts
\* lines 39-83). A JavaScript value is a record tagged with its type.
\* ------------------------------------------------------------------------

JsNull == [t |-> "null"]

JsUndefined == [t |-> "undefined"]

NaN == [t |-> "NaN"]

Num(n) == [t |-> "number", n |-> n]

Str(s) == [t |-> "string", s |-> s]

\* ToBoolean of a value
JsTruthy(v) ==
    /\ v.t \notin {"null", "undefined", "NaN"}
    /\ v.t = "number" => v.n # 0
    /\ v.t = "string" => v.s # ""

\* What the upstream does with the one request it gets: fetch rejects (no
\* network), response.json() rejects (no JSON), or a JSON body arrives
Bodies ==
    {JsNull,
     Num(7),
     [t |-> "array", items |-> <<>>],
     [t |-> "object", data |-> <<"track">>, total |-> 1],
     [t |-> "object", error |-> JsNull],
     [t |-> "object",
      error |-> [t |-> "object", type |-> "DataException", message |-> "no data"]],
     [t |-> "object",
      error |-> [t |-> "object", type |-> "DataException", message |-> ""]],
     [t |-> "object", error |-> [t |-> "object", type |-> "DataException"]]}

Upstreams ==
    {[fetch |-> "rejects"], [fetch |-> "resolves", json |-> "rejects"]}
        \cup {[fetch |-> "resolves", json |-> "resolves", body |-> b] : b \in Bodies}

\* Mutant of CarriesError: the body is never looked at
CarriesErrorNever(data) == FALSE

\* deezer.ts line 66: data && typeof data === 'object' && 'error' in data
\* && data.error
CarriesError(data) ==
    /\ JsTruthy(data)
    /\ data.t \in {"object", "array"}
    /\ "error" \in DOMAIN data
    /\ JsTruthy(data.error)

\* deezer.ts line 69: data.error.message || 'Deezer API error'
ErrorMessage(error) ==
    IF "message" \in DOMAIN error /\ error.message # "" THEN error.message
    ELSE "Deezer API error"

\* deezer.ts lines 43-74: the try block when the upstream behaves as up,
\* with the calls of fetch it made. new URL does not throw on the paths the
\* handlers pass; fetch is called once (line 56); a rejected fetch and a
\* rejected response.json() (line 63) throw.
TryFetch(up) ==
    IF up.fetch = "rejects" \/ up.json = "rejects"
    THEN [threw |-> TRUE, calls |-> 1]
    ELSE IF CarriesError(up.body)
    THEN [threw |-> FALSE, calls |-> 1, data |-> JsNull,
          error |-> Str(ErrorMessage(up.body.error)), status |-> 404]
    ELSE [threw |-> FALSE, calls |-> 1, data |-> up.body, error |-> JsNull,
          status |-> 200]

\* deezer.ts lines 75-82: the catch block
Catch(tried) ==
    IF tried.threw
    THEN [threw |-> FALSE, calls |-> tried.calls, data |-> JsNull,
          error |-> Str("Failed to fetch from Deezer API"), status |-> 502]
    ELSE tried

\* deezer.ts lines 39-83
fetchDeezer(up) == Catch(TryFetch(up))

\* The longest prefix of str made of digits
RECURSIVE DigitPrefix(_)
DigitPrefix(str) ==
    IF str # <<>> /\ IsDigits(<<Head(str)>>)
    THEN <<Head(str)>> \o DigitPrefix(Tail(str))
    ELSE <<>>

\* parseInt(str, 10): leading whitespace skipped, a sign, then the digits up
\* to the first other character; NaN without a digit
parseInt(str) ==
    LET s == TrimStart(str)
        signed == s # <<>> /\ Head(s) \in {"-", "+"}
        digits == DigitPrefix(IF signed THEN Tail(s) ELSE s)
    IN IF digits = <<>> THEN NaN
       ELSE IF signed /\ Head(s) = "-" THEN Num(0 - ParseDigits(digits))
       ELSE Num(ParseDigits(digits))

\* String(val) in a template literal, for a number
String(val) == IF val = NaN THEN <<"N", "a", "N">> ELSE toString(val.n)

\* Mutant of IdIssues: every id passes
IdIssuesNone(id) == <<>>

\* validation.ts lines 17-21: idSchema; the issues it raises for id (the
\* refine does not run when the regex has failed)
IdIssues(id) ==
    IF ~IsDigits(id) THEN <<"id: ID must be a non-negative integer">>
    ELSE IF parseInt(id).n >= 0 THEN <<>>
    ELSE <<"id: ID must be 0 or greater">>

\* validation.ts lines 30 and 37: val ? parseInt(val, 10) : undefined, on a
\* query parameter that is absent (undefined) or a string
Optional(query, key) ==
    IF key \in DOMAIN query /\ query[key] # <<>> THEN parseInt(query[key])
    ELSE JsUndefined

\* validation.ts lines 31-33 and 38-40: the refinements; a comparison with
\* NaN is false
LimitOk(val) == val = JsUndefined \/ (val.t = "number" /\ val.n > 0 /\ val.n <= 100)

IndexOk(val) == val = JsUndefined \/ (val.t = "number" /\ val.n >= 0)

\* validation.ts lines 26-41: paginationSchema; the issues it raises
PaginationIssues(query) ==
    (IF LimitOk(Optional(query, "limit")) THEN <<>>
     ELSE <<"limit: Limit must be between 1 and 100">>)
    \o (IF IndexOk(Optional(query, "index")) THEN <<>>
        ELSE <<"index: Index must be 0 or greater">>)

\* validation.ts lines 133-144: validate, given the issues safeParse raised
\* and the parsed data; formatZodError joins the issues
validate(issues, data) ==
    IF issues = <<>> THEN [success |-> TRUE, data |-> data]
    ELSE [success |-> FALSE, error |-> issues]

\* The ids, and the limit and index parameters, a request may carry
RouteIds == {<<"2", "7">>, <<"0">>, <<"a">>, <<"-", "1">>, <<>>, <<"5", "a">>}

LimitParams ==
    {<<>>, <<"0">>, <<"5">>, <<"1", "0", "0">>, <<"1", "0", "1">>, <<"5", "a">>,
     <<"a">>, <<"-", "1">>}

IndexParams == {<<>>, <<"0">>, <<"7">>, <<"-", "1">>, <<"a">>}

\* c.req.query(): each parameter absent or present
Queries ==
    {[k \in {} |-> <<>>]}
        \cup {[k \in {"limit"} |-> l] : l \in LimitParams}
        \cup {[k \in {"index"} |-> i] : i \in IndexParams}
        \cup {[k \in {"limit", "index"} |-> IF k = "limit" THEN l ELSE i] :
                 l \in LimitParams, i \in IndexParams}

\* A request for /artist/:id/top has reached its handler.
InitRoute ==
    /\ now = 0
    /\ StoreEmpty
    /\ log = EmptyMap
    /\ flight = {}
    /\ out = {}
    /\ swept = FALSE
    /\ req = NoRequest
    /\ twin = EmptyMap
    /\ twinLast = EmptyMap
    /\ \E id \in RouteIds, query \in Queries, up \in Upstreams :
          route = [pc |-> "handler", id |-> id, query |-> query, up |-> up,
                   calls |-> <<>>]

\* artist.ts lines 46-72: the handler up to its await. It answers 400 on the
\* first validation that fails, and otherwise calls fetchDeezer with the
\* parsed id in the path and the parsed limit and index.
ArtistTopValidate ==
    /\ route.pc = "handler"
    /\ LET paramsValidation == validate(IdIssues(route.id), [id |-> parseInt(route.id)])
           queryValidation ==
               validate(PaginationIssues(route.query),
                        [limit |-> Optional(route.query, "limit"),
                         index |-> Optional(route.query, "index")])
       IN IF ~paramsValidation.success
          THEN route' = [route EXCEPT !.pc = "done"] @@
                        [status |-> 400,
                         body |-> [error |-> "Validation Error",
                                   message |-> paramsValidation.error,
                                   example |-> "/artist/27/top"]]
          ELSE IF ~queryValidation.success
          THEN route' = [route EXCEPT !.pc = "done"] @@
                        [status |-> 400,
                         body |-> [error |-> "Validation Error",
                                   message |-> queryValidation.error]]
          ELSE route' = [route EXCEPT
                            !.pc = "awaiting",
                            !.calls = Append(@,
                                [endpoint |-> <<"/artist/", String(paramsValidation.data.id), "/top">>,
                                 params |-> queryValidation.data])]
    /\ UNCHANGED <<now, store, last, winStart, seen, admitted, overBefore, solo,
                   soloLast, log, flight, out, swept, req, twin, twinLast>>

\* artist.ts lines 69-81: fetchDeezer returns and the handler answers
ArtistTopRespond ==
    /\ route.pc = "awaiting"
    /\ LET result == fetchDeezer(route.up)
       IN route' = [route EXCEPT !.pc = "done"] @@
                   [result |-> result,
                    status |-> IF JsTruthy(result.error) THEN result.status ELSE 200,
                    body |-> IF JsTruthy(result.error)
                             THEN [error |-> IF result.status = 404 THEN "Not Found"
                                             ELSE "Upstream Error",
                                   message |-> result.error.s]
                             ELSE result.data]
    /\ UNCHANGED <<now, store, last, winStart, seen, admitted, overBefore, solo,
                   soloLast, log, flight, out, swept, req, twin, twinLast>>

NextRoute ==
    \/ ArtistTopValidate
    \/ ArtistTopRespond

SpecRoute == InitRoute /\ [][NextRoute]_vars

\* ------------------------------------------------------------------------
\* Claims
\* ------------------------------------------------------------------------

\* C1: for every identity, from the time its entry was created or replaced
\* on, at most limit of its requests are passed to the next stage while that
\* entry stands (the window), whatever requests and sweeps are interleaved.
C1_AtMostLimitAdmitted ==
    \A ip \in DOMAIN admitted :
        /\ admitted[ip] <= limit
        /\ Has(store, ip) => store[ip].resetTime = winStart[ip] + windowMs

C1_Witness ==
    \E ip \in DOMAIN admitted :
        /\ admitted[ip] = limit
        /\ seen[ip] = limit + 2
        /\ \E other \in DOMAIN store \ {ip} : TRUE

\* C2: for every identity and every interval of length windowMs, wherever
\* it starts, at most limit of its requests are admitted. Stated on the
\* intervals (now - windowMs, now] that end at an admitted request.
C2_SlidingWindowLimit ==
    \A ip \in DOMAIN log :
        SumOver(log[ip], {t \in DOMAIN log[ip] : t > now - windowMs /\ t <= now}) <= limit

\* C3: in one window of one identity the limit-th request is admitted, the
\* (limit+1)-th is rejected with status 429, and so is every later one.
C3_Boundary ==
    \A ip \in DOMAIN last :
        /\ seen[ip] <= limit => last[ip].next
        /\ seen[ip] > limit => ~last[ip].next /\ last[ip].status = 429

C3_Witness ==
    \E ip \in DOMAIN last : seen[ip] = limit + 2 /\ last[ip].status = 429

\* C4: the first request of an identity that has no entry in the store is
\* admitted with X-RateLimit-Remaining = limit - 1, whatever the other
\* identities have done.
C4_FirstRequest ==
    [][\A ip \in Ids :
          Request(ip) /\ ~Has(store, ip)
              => last'[ip].next /\ RemainingOf(last'[ip]) = limit - 1]_vars

C4_Witness ==
    \E ip \in DOMAIN last : \E other \in DOMAIN last \ {ip} :
        /\ seen[ip] = 1 /\ last[ip].next /\ RemainingOf(last[ip]) = limit - 1
        /\ Has(store, other) /\ store[other].count > limit
        /\ last[ip].at >= last[other].at

\* C5: the k-th request of an identity within one window, k <= limit, gets
\* X-RateLimit-Remaining = limit - k, with sweeps and other identities'
\* requests interleaved.
C5_RemainingCountsDown ==
    \A ip \in DOMAIN last :
        seen[ip] <= limit => RemainingOf(last[ip]) = limit - seen[ip]

C5_Witness ==
    \E ip \in DOMAIN last : \E other \in DOMAIN last \ {ip} :
        /\ seen[ip] = limit /\ RemainingOf(last[ip]) = 0
        /\ last[ip].at > winStart[ip]
        /\ winStart[other] > winStart[ip]

\* C6: a request of an identity whose entry has now > resetTime starts a
\* fresh window: the entry becomes count = 1, resetTime = now + windowMs and
\* the request is admitted, however large the old count was.
C6_Rollover ==
    [][\A ip \in Ids :
          Request(ip) /\ Has(store, ip) /\ now > store[ip].resetTime
              => /\ store'[ip] = [count |-> 1, resetTime |-> now + windowMs]
                 /\ last'[ip].next]_vars

C6_Witness ==
    \E ip \in DOMAIN store :
        /\ overBefore[ip]
        /\ store[ip] = [count |-> 1, resetTime |-> last[ip].at + windowMs]
        /\ last[ip].next

\* C7: on every rejection retryAfter is ceil((resetTime - now) / 1000), the
\* least integer r with 1000 * r >= resetTime - now, and it is >= 0.
C7_RetryAfter ==
    \A ip \in DOMAIN store :
        Rejected(ip) =>
            LET r == last[ip].body.retryAfter
                d == store[ip].resetTime - last[ip].at
            IN r >= 0 /\ 1000 * r >= d /\ 1000 * (r - 1) < d

C7_Witness ==
    \E ip \in DOMAIN store :
        /\ Rejected(ip)
        /\ (store[ip].resetTime - last[ip].at) % 1000 # 0
        /\ last[ip].body.retryAfter = 60

\* C8: a request rejected at time t with retryAfter = r is followed by an
\* admitted request when the identity's next request comes at t + 1000 * r.
C8_RetryAfterRecovers ==
    [][\A ip \in Ids :
          Request(ip) /\ Rejected(ip) /\ now = last[ip].at + 1000 * last[ip].body.retryAfter
              => last'[ip].next]_vars

\* C9: an identity's entry, remaining value and decisions are what they are
\* in a run that holds its own requests only: no request of another
\* identity changes them.
C9_IdentityIsolation ==
    /\ DOMAIN store = DOMAIN solo
    /\ DOMAIN last = DOMAIN soloLast
    /\ \A ip \in DOMAIN store : store[ip] = solo[ip]
    /\ \A ip \in DOMAIN last : last[ip] = soloLast[ip]

C9_Witness ==
    \E a \in DOMAIN store : \E b \in DOMAIN store \ {a} :
        /\ store[a].count > limit
        /\ store[b].count = 2
        /\ winStart[a] < winStart[b]
        /\ last[b].at < last[a].at

\* C10: every response of the limiter carries X-RateLimit-Limit,
\* X-RateLimit-Remaining and X-RateLimit-Reset, each a non-negative decimal
\* integer: Limit = limit, Remaining = max(0, limit - count) and
\* Reset = resetTime of the entry as this request left it.
C10_Headers ==
    \A ip \in DOMAIN last :
        /\ {"X-RateLimit-Limit", "X-RateLimit-Remaining", "X-RateLimit-Reset"}
               \subseteq DOMAIN last[ip].headers
        /\ IsDigits(Header(ip, "X-RateLimit-Limit"))
        /\ IsDigits(Header(ip, "X-RateLimit-Remaining"))
        /\ IsDigits(Header(ip, "X-RateLimit-Reset"))
        /\ ParseDigits(Header(ip, "X-RateLimit-Limit")) = limit
        /\ Has(store, ip) =>
              /\ ParseDigits(Header(ip, "X-RateLimit-Remaining"))
                     = (IF store[ip].count >= limit THEN 0 ELSE limit - store[ip].count)
              /\ ParseDigits(Header(ip, "X-RateLimit-Reset")) = store[ip].resetTime

C10_Witness ==
    \E ip \in DOMAIN store :
        /\ Rejected(ip)
        /\ store[ip].count = limit + 2
        /\ Header(ip, "X-RateLimit-Remaining") = <<"0">>
        /\ Header(ip, "X-RateLimit-Reset") = <<"1", "2", "0", "0", "0", "1">>

\* C11: a request is rejected exactly when its entry's count, once it is
\* counted, is above limit; a rejection has status 429, a Retry-After header
\* and a body with retryAfter = the Retry-After value, limit = the
\* X-RateLimit-Limit value, error "Too Many Requests" and window "1 minute";
\* an admitted request gets no Retry-After header from the limiter.
C11_Rejection ==
    \A ip \in DOMAIN store :
        /\ ~last[ip].next <=> store[ip].count > limit
        /\ ~last[ip].next =>
              /\ last[ip].status = 429
              /\ "Retry-After" \in DOMAIN last[ip].headers
              /\ IsDigits(Header(ip, "Retry-After"))
              /\ last[ip].body.retryAfter = ParseDigits(Header(ip, "Retry-After"))
              /\ last[ip].body.limit = ParseDigits(Header(ip, "X-RateLimit-Limit"))
              /\ last[ip].body.error = "Too Many Requests"
              /\ last[ip].body.window = "1 minute"
        /\ last[ip].next => "Retry-After" \notin DOMAIN last[ip].headers

C11_Witness ==
    \E ip \in DOMAIN store :
        /\ store[ip].count = limit + 1
        /\ last[ip].status = 429
        /\ Header(ip, "Retry-After") = <<"6", "0">>
        /\ last[ip].body.retryAfter = 60

\* The check step of a request of ip ran in this step.
CheckRan(ip) ==
    /\ Has(seen', ip)
    /\ \/ ~Has(seen, ip)
       \/ seen'[ip] # seen[ip]
       \/ winStart'[ip] # winStart[ip]

\* C12: the limiter short-circuits. A rejected request (429) makes no call
\* of next and nothing enters a route handler; an admitted request enters
\* the next stage exactly once, with one call of next that comes after
\* setRateLimitHeaders, carrying the three rate-limit headers. No request
\* suspended in a handler is a rejected one.
C12_ShortCircuit ==
    [][\A ip \in Ids : CheckRan(ip) =>
          LET resp == last'[ip]
              entered == flight' \ flight
          IN /\ resp.status = 429 =>
                   /\ entered = {}
                   /\ NextCalls(resp) = 0
                   /\ ~resp.next
             /\ resp.status # 429 =>
                   /\ Cardinality(entered) = 1
                   /\ \A r \in entered : r.ip = ip /\ r.resp = resp
                   /\ resp.next
                   /\ NextCalls(resp) = 1
                   /\ \E i, j \in DOMAIN resp.did :
                         /\ i < j
                         /\ resp.did[i] = "setRateLimitHeaders"
                         /\ resp.did[j] = "next"
                   /\ {"X-RateLimit-Limit", "X-RateLimit-Remaining",
                       "X-RateLimit-Reset"} \subseteq DOMAIN resp.headers
             /\ \A r \in flight' : r.resp.status # 429
      ]_vars

\* A request was rejected while the last admitted request of its window is
\* still in its handler.
C12_Witness ==
    \E ip \in DOMAIN store :
        /\ store[ip].count > limit
        /\ last[ip].status = 429
        /\ \E r \in flight : r.ip = ip /\ r.win = winStart[ip] /\ r.k = limit

\* C16: no lost updates under interleaving. With requests suspended in their
\* handlers and completing in any order, an identity's count equals the
\* number of its requests checked in the window, and the k-th request of a
\* window carries remaining = max(0, limit - k): in the response of the
\* latest check, in every suspended request and in the delivered response.
C16_NoLostUpdates ==
    /\ \A ip \in DOMAIN store : store[ip].count = seen[ip]
    /\ \A ip \in DOMAIN last : RemainingOf(last[ip]) = Max(0, limit - seen[ip])
    /\ \A r \in flight : RemainingOf(r.resp) = Max(0, limit - r.k)
    /\ \A r \in out :
          /\ IsDigits(r.headers["X-RateLimit-Remaining"])
          /\ ParseDigits(r.headers["X-RateLimit-Remaining"]) = Max(0, limit - r.k)

\* A later request of the window was delivered while an earlier one is still
\* suspended, and further requests were checked meanwhile.
C16_Witness ==
    \E r \in flight : \E o \in out :
        /\ o.ip = r.ip /\ o.win = r.win /\ o.k > r.k
        /\ Has(store, r.ip)
        /\ r.win = winStart[r.ip]
        /\ store[r.ip].count > o.k

\* C20: a request of an identity whose window is open increments count by
\* exactly 1 and leaves resetTime alone, rejected or not; count equals the
\* number of requests, admitted plus rejected, seen in the window.
C20_CountsEveryRequest ==
    [][\A ip \in Ids : CheckRan(ip) =>
          IF Has(store, ip) /\ now <= store[ip].resetTime
          THEN /\ store'[ip].count = store[ip].count + 1
               /\ store'[ip].resetTime = store[ip].resetTime
               /\ store'[ip].count = seen'[ip]
               /\ seen'[ip] = admitted'[ip]
                                 + (seen[ip] - admitted[ip])
                                 + (IF last'[ip].status = 429 THEN 1 ELSE 0)
          ELSE store'[ip].count = 1 /\ seen'[ip] = 1
      ]_vars

\* The count has passed the limit: rejected requests were counted.
C20_Witness ==
    \E ip \in DOMAIN store :
        /\ store[ip].count = limit + 2
        /\ seen[ip] = limit + 2
        /\ admitted[ip] = limit
        /\ last[ip].status = 429

\* C13 as stated: immediately after a sweep that ran at time s (= now), every
\* entry still in the store has resetTime > s.
C13_SweepStrict ==
    swept => \A ip \in DOMAIN store : store[ip].resetTime > now

\* C13, amended: immediately after a sweep at time s, the store holds exactly
\* the entries whose resetTime has not passed (resetTime >= s): an entry with
\* resetTime = s is kept, every entry with resetTime < s is gone, and no
\* entry whose window is still open was deleted.
C13_SweepKeepsOpen ==
    swept =>
        /\ \A ip \in DOMAIN store : store[ip].resetTime >= now
        /\ DOMAIN store = {ip \in DOMAIN winStart : winStart[ip] + windowMs >= now}

\* A sweep deleted one identity's entry and kept the entry of another whose
\* resetTime is the sweep time.
C13_Witness ==
    /\ swept
    /\ \E ip \in DOMAIN store : store[ip].resetTime = now
    /\ \E ip \in DOMAIN winStart : ~Has(store, ip)

\* C17: the example trace. From an empty store, each of the 100 requests at
\* t = 0 is admitted, the k-th showing remaining 100 - k and the 100th
\* X-RateLimit-Remaining 0; the 101st request, at t = 1000, is rejected with
\* status 429 and Retry-After 59; the 102nd, at t = 61000, is admitted with
\* X-RateLimit-Remaining 99.
C17_ExampleTrace ==
    /\ ExampleSent(0) > 0 /\ now = 0 =>
          /\ last[ExampleIp].next
          /\ last[ExampleIp].status # 429
          /\ admitted[ExampleIp] = ExampleSent(0)
          /\ RemainingOf(last[ExampleIp]) = 100 - ExampleSent(0)
          /\ ExampleSent(0) = 100 => Header(ExampleIp, "X-RateLimit-Remaining") = <<"0">>
    /\ ExampleSent(1000) = 0 /\ now = 1000 =>
          /\ admitted[ExampleIp] = 100
          /\ Header(ExampleIp, "X-RateLimit-Remaining") = <<"0">>
    /\ ExampleSent(1000) = 1 /\ ExampleSent(61000) = 0 =>
          /\ ~last[ExampleIp].next
          /\ last[ExampleIp].status = 429
          /\ Header(ExampleIp, "Retry-After") = <<"5", "9">>
          /\ last[ExampleIp].body.retryAfter = 59
    /\ ExampleSent(61000) = 1 =>
          /\ last[ExampleIp].next
          /\ last[ExampleIp].status # 429
          /\ Header(ExampleIp, "X-RateLimit-Remaining") = <<"9", "9">>
          /\ "Retry-After" \notin DOMAIN last[ExampleIp].headers

\* The whole script has run: 102 requests, the last one at t = 61000.
C17_Witness ==
    /\ now = 61000
    /\ ExampleSent(0) = 100 /\ ExampleSent(1000) = 1 /\ ExampleSent(61000) = 1
    /\ last[ExampleIp].at = 61000
    /\ store[ExampleIp].count = 1

\* C14: the rate limiter never fails. Whatever IP headers the request
\* carries (absent, empty, blank, lists, lists with an empty first element)
\* and whatever entry the store holds for the identity, the limiter ends
\* without an exception, with a non-empty identity counted in the store and
\* with a definite decision: the request went on to next with no error
\* status, or it was rejected with status 429, the only error outcome.
C14_NeverFails ==
    /\ req.pc # "threw"
    /\ req.pc = "decided" =>
          /\ req.ip # <<>>
          /\ req.ip # TypeError
          /\ Has(store, req.ip)
          /\ Has(last, req.ip)
          /\ last[req.ip].at = now
          /\ last[req.ip].status \in {0, 429}
          /\ \/ last[req.ip].next /\ last[req.ip].status = 0
             \/ ~last[req.ip].next /\ last[req.ip].status = 429

\* A request with no usable header among empty and malformed ones was
\* decided, and rejected, under the sentinel identity.
C14_Witness ==
    /\ req.pc = "decided"
    /\ DOMAIN req.headers = {"x-forwarded-for", "x-real-ip", "x-client-ip"}
    /\ req.headers["x-forwarded-for"] = <<",", "1">>
    /\ req.headers["x-real-ip"] = <<>>
    /\ req.headers["x-client-ip"] = <<" ">>
    /\ req.ip = unknown
    /\ last[req.ip].status = 429

\* The headers, by position in CONFIG.ipHeaders, that the request carries
\* with a non-empty value
NonEmptyHeaders(h) ==
    {i \in 1..Len(ipHeaders) : ipHeaders[i] \in DOMAIN h /\ h[ipHeaders[i]] # <<>>}

\* e is the first comma-separated element of value.
IsFirstElement(e, value) ==
    \E n \in 0..Len(value) :
        /\ e = SubSeq(value, 1, n)
        /\ \A k \in 1..n : value[k] # ","
        /\ n = Len(value) \/ value[n + 1] = ","

\* t is e without the whitespace at its ends.
IsTrimmed(t, e) ==
    \E i \in 1..(Len(e) + 1) : \E j \in 0..Len(e) :
        /\ t = SubSeq(e, i, j)
        /\ \A k \in 1..(i - 1) : e[k] = " "
        /\ \A k \in (j + 1)..Len(e) : e[k] = " "
        /\ t # <<>> => t[1] # " " /\ t[Len(t)] # " "

\* ip is the trimmed first element of value.
IsIdentityOf(ip, value) ==
    \E e \in {SubSeq(value, 1, n) : n \in 0..Len(value)} :
        IsFirstElement(e, value) /\ IsTrimmed(ip, e)

Least(S) == CHOOSE i \in S : \A j \in S : i <= j

\* C15 as stated: the identity is the trimmed first element of the first
\* header, in the fixed order, that is present with a non-empty value, and
\* "unknown" if there is no such header.
C15_FirstNonEmptyHeader ==
    req.pc = "decided" =>
        IF NonEmptyHeaders(req.headers) = {} THEN req.ip = unknown
        ELSE IsIdentityOf(req.ip,
                 req.headers[ipHeaders[Least(NonEmptyHeaders(req.headers))]])

\* The headers that yield a value: present, with a first element that is not
\* empty once trimmed
YieldingHeaders(h) ==
    {i \in 1..Len(ipHeaders) :
        /\ ipHeaders[i] \in DOMAIN h
        /\ ~IsIdentityOf(<<>>, h[ipHeaders[i]])}

\* C15, amended: the identity is the trimmed first comma-separated element
\* of the first header, in the fixed order, whose trimmed first element is
\* not empty; a header that is absent, empty, blank or that starts with a
\* comma is passed over. If no header yields a value the identity is
\* "unknown", and the request is counted under that one key.
C15_FirstYieldingHeader ==
    req.pc = "decided" =>
        /\ IF YieldingHeaders(req.headers) = {} THEN req.ip = unknown
           ELSE IsIdentityOf(req.ip,
                    req.headers[ipHeaders[Least(YieldingHeaders(req.headers))]])
        /\ req.ip # <<>>
        /\ Has(store, req.ip) /\ last[req.ip].at = now

\* The first header starts with a comma, the second is a padded list: the
\* identity came from the second.
C15_Witness ==
    /\ req.pc = "decided"
    /\ "x-forwarded-for" \in DOMAIN req.headers
    /\ req.headers["x-forwarded-for"] = <<",", "1">>
    /\ "x-real-ip" \in DOMAIN req.headers
    /\ req.headers["x-real-ip"] = <<" ", "2", " ", ",", "9">>
    /\ req.ip = <<"2">>
    /\ store[req.ip].count = 1

\* The upstream call failed: no network, or no JSON in the response.
UpstreamFailed(up) == up.fetch = "rejects" \/ up.json = "rejects"

\* The upstream body is an object that carries an error object.
UpstreamError(up) ==
    /\ ~UpstreamFailed(up)
    /\ up.body.t = "object"
    /\ "error" \in DOMAIN up.body
    /\ up.body.error.t = "object"

FailsValidation(id, query) ==
    \/ ~IsDigits(id)
    \/ /\ "limit" \in DOMAIN query
       /\ query.limit # <<>>
       /\ LET val == parseInt(query.limit)
          IN val = NaN \/ val.n < 1 \/ val.n > 100
    \/ /\ "index" \in DOMAIN query
       /\ query.index # <<>>
       /\ LET val == parseInt(query.index)
          IN val = NaN \/ val.n < 0

C21_CountMonotone ==
    [][\A ip \in Ids :
          /\ Has(store', ip) => store'[ip].count >= 1
          /\ Has(store, ip) /\ Has(store', ip) =>
                /\ store'[ip].resetTime = store[ip].resetTime =>
                      store'[ip].count >= store[ip].count
                /\ store'[ip].count < store[ip].count =>
                      /\ now > store[ip].resetTime
                      /\ store'[ip] = [count |-> 1, resetTime |-> now + windowMs]
      ]_vars

\* A new window was started over an entry that was over the limit, and has
\* been counting since.
C21_Witness ==
    \E ip \in DOMAIN store :
        /\ overBefore[ip]
        /\ winStart[ip] > 0
        /\ store[ip].count = 2
        /\ store[ip].resetTime = winStart[ip] + windowMs

\* C22: every entry has resetTime = the time it was created or replaced +
\* windowMs, strictly after that time, which is not in the future; the store
\* holds one entry per identity, under the identity's key, and nothing else.
C22_EntryShape ==
    /\ DOMAIN store \subseteq Ids
    /\ \A ip \in DOMAIN store :
          /\ DOMAIN store[ip] = {"count", "resetTime"}
          /\ Has(winStart, ip)
          /\ winStart[ip] <= now
          /\ store[ip].resetTime = winStart[ip] + windowMs
          /\ store[ip].resetTime > winStart[ip]

\* Both identities have an entry, created at different times.
C22_Witness ==
    /\ DOMAIN store = Ids
    /\ \E ip \in Ids : \E other \in Ids :
          /\ winStart[ip] < winStart[other]
          /\ store[ip].resetTime < store[other].resetTime
          /\ store[ip].resetTime >= now

\* C23: the window end is inclusive. A request at now = resetTime is counted
\* in the existing window (count + 1, resetTime kept) and is rejected exactly
\* if that count exceeds limit; a request replaces an entry only at
\* now > resetTime.
C23_InclusiveEnd ==
    [][\A ip \in Ids : CheckRan(ip) /\ Has(store, ip) =>
          /\ now = store[ip].resetTime =>
                /\ store'[ip] = [count |-> store[ip].count + 1,
                                 resetTime |-> store[ip].resetTime]
                /\ last'[ip].status = 429 <=> store[ip].count + 1 > limit
                /\ last'[ip].next <=> store[ip].count + 1 <= limit
          /\ store'[ip].resetTime # store[ip].resetTime => now > store[ip].resetTime
          /\ now > store[ip].resetTime =>
                store'[ip] = [count |-> 1, resetTime |-> now + windowMs]
      ]_vars

\* A request at the last millisecond of its window was counted in it and
\* rejected.
C23_Witness ==
    \E ip \in DOMAIN store :
        /\ last[ip].at = store[ip].resetTime
        /\ now = store[ip].resetTime
        /\ store[ip].count = limit + 1
        /\ last[ip].status = 429

\* C28: a request inside an open window leaves the window's resetTime alone,
\* so its X-RateLimit-Reset is that of the response before it, rejected or
\* not; a new window of an identity has a resetTime strictly greater than
\* that of the identity's window before.
C28_ResetTimeFixed ==
    [][\A ip \in Ids : CheckRan(ip) /\ Has(winStart, ip) =>
          IF winStart'[ip] = winStart[ip]
          THEN /\ store'[ip].resetTime = winStart[ip] + windowMs
               /\ Has(store, ip) /\ store'[ip].resetTime = store[ip].resetTime
               /\ last'[ip].headers["X-RateLimit-Reset"]
                     = last[ip].headers["X-RateLimit-Reset"]
               /\ ParseDigits(last'[ip].headers["X-RateLimit-Reset"])
                     = store'[ip].resetTime
          ELSE /\ store'[ip].resetTime > winStart[ip] + windowMs
               /\ ParseDigits(last'[ip].headers["X-RateLimit-Reset"])
                     > ParseDigits(last[ip].headers["X-RateLimit-Reset"])
      ]_vars

\* A rejected request in the second window of an identity carries the
\* window's resetTime.
C28_Witness ==
    \E ip \in DOMAIN store :
        /\ winStart[ip] > 0
        /\ last[ip].status = 429
        /\ last[ip].at > winStart[ip]
        /\ Header(ip, "X-RateLimit-Reset") = toString(winStart[ip] + windowMs)

\* C24: with the cleanup timer firing and time advancing, the entry of an
\* identity that sends no further request is eventually removed from the
\* store, whatever requests the other identities send or do not send; and a
\* run of the callback at a time past an entry's resetTime removes it.
C24_EventuallySwept ==
    /\ \A ip \in Ids : \A k \in 1..MaxLive :
          (Has(store, ip) /\ Sent(ip) = k) ~> (~Has(store, ip) \/ Sent(ip) # k)
    /\ [][\A ip \in DOMAIN store :
              (/\ DOMAIN store' \subseteq DOMAIN store
               /\ DOMAIN store' # DOMAIN store
               /\ now > store[ip].resetTime) => ~Has(store', ip)]_vars

\* The entry of an identity was removed while the other identity still has
\* its entry and has sent all its requests.
C24_Witness ==
    \E ip \in Ids : \E other \in Ids :
        /\ Sent(ip) > 0 /\ ~Has(store, ip)
        /\ Has(store, other) /\ Sent(other) = MaxLive
        /\ now <= store[other].resetTime

\* C25: the count is taken before, and apart from, what happens downstream.
\* When the handler of an admitted request ends, in 200, 400, 404 or 502,
\* the store is left as it is: no count is rolled back or changed, whatever
\* the status, and the response goes out with the headers of the check.
C25_DownstreamFrame ==
    [][(flight' # flight /\ flight' \subseteq flight) =>
          /\ store' = store
          /\ \A r \in flight \ flight' : \E o \in out' :
                /\ o.status \in HandlerStatus
                /\ o.ip = r.ip /\ o.k = r.k
                /\ o.headers = r.resp.headers
                /\ Has(store', r.ip) /\ winStart[r.ip] = r.win
                      => store'[r.ip].count = seen[r.ip]
      ]_vars

\* An admitted request ended in 502, and its identity's count stands: the
\* later requests of the window were counted on top of it.
C25_Witness ==
    \E o \in out :
        /\ o.status = 502
        /\ Has(store, o.ip)
        /\ winStart[o.ip] = o.win
        /\ store[o.ip].count = o.k + 2
        /\ store[o.ip].count = seen[o.ip]

\* C27: the sweep is invisible to clients. On the same requests at the same
\* times, the run with sweeps at arbitrary points and the run without any
\* give every identity the same latest response: decision, status, headers
\* and body. The stores differ only in entries the sweep deleted, whose
\* resetTime has passed, so that the next request of the identity replaces
\* them anyway.
C27_SweepInvisible ==
    /\ last = twinLast
    /\ DOMAIN store \subseteq DOMAIN twin
    /\ \A ip \in DOMAIN twin :
          IF Has(store, ip) THEN store[ip] = twin[ip]
          ELSE now > twin[ip].resetTime
    /\ \A ip \in Ids : CountedEntry(store, ip, now) = CountedEntry(twin, ip, now)

\* An identity was rejected in a window opened after its earlier entry was
\* over the limit, while the other identity's entry is swept in the first
\* run and still there in the second.
C27_Witness ==
    \E ip \in DOMAIN store : \E other \in DOMAIN twin :
        /\ ~Has(store, other)
        /\ twin[other].count > 1
        /\ winStart[ip] > 0
        /\ last[ip].status = 429
        /\ twinLast[ip].status = 429

\* C26: the decision and the headers of a request depend only on its derived
\* identity, the time and the earlier requests of that identity. Two runs
\* whose requests differ only in path, method, query, network origin or a
\* lower-priority IP header keep equal stores and give every identity the
\* same response, so all paths share one counter per identity; and a request
\* that is the first of its identity in its window is admitted whatever the
\* other identities have sent.
C26_OnlyIdentityAndTime ==
    /\ store = twin
    /\ last = twinLast
    /\ req.pc = "pair" =>
          /\ Has(last, getClientIp(req.a.headers))
          /\ Has(twinLast, getClientIp(req.b.headers))
          /\ last[getClientIp(req.a.headers)] = twinLast[getClientIp(req.b.headers)]
    /\ \A ip \in DOMAIN store : store[ip].count = 1 => last[ip].next

\* The second run's request differed in path, method, query, origin and a
\* lower-priority header, both runs rejected it, and the identity without
\* headers was admitted with its first request.
C26_Witness ==
    /\ req.pc = "pair"
    /\ req.a.path # req.b.path /\ req.a.method # req.b.method
    /\ req.a.query # req.b.query /\ req.a.origin # req.b.origin
    /\ DOMAIN req.a.headers # DOMAIN req.b.headers
    /\ last[<<"1">>].status = 429 /\ twinLast[<<"1">>].status = 429
    /\ last[<<"1">>].at = now
    /\ Has(store, unknown) /\ store[unknown].count = 1 /\ last[unknown].next
    /\ now <= store[unknown].resetTime

\* C29: the remaining header is a sound promise. A rejected response carries
\* X-RateLimit-Remaining 0. When the latest response to an identity carries
\* remaining r > 0, the identity's next request, if it comes no later than
\* that response's X-RateLimit-Reset, is admitted and carries remaining r - 1
\* and the same reset: so the next r such requests are all admitted.
C29_RemainingIsSound ==
    [][\A ip \in Ids : CheckRan(ip) =>
          /\ last'[ip].status = 429 =>
                last'[ip].headers["X-RateLimit-Remaining"] = <<"0">>
          /\ (/\ Has(last, ip)
              /\ RemainingOf(last[ip]) > 0
              /\ now <= ParseDigits(last[ip].headers["X-RateLimit-Reset"])) =>
                /\ last'[ip].next
                /\ last'[ip].status # 429
                /\ RemainingOf(last'[ip]) = RemainingOf(last[ip]) - 1
                /\ last'[ip].headers["X-RateLimit-Reset"]
                      = last[ip].headers["X-RateLimit-Reset"]
      ]_vars

\* The last promised request of a window was admitted, at the window's last
\* millisecond.
C29_Witness ==
    \E ip \in DOMAIN store :
        /\ last[ip].next
        /\ Header(ip, "X-RateLimit-Remaining") = <<"0">>
        /\ store[ip].count = limit
        /\ last[ip].at = store[ip].resetTime

\* The first comma-separated element of value is empty once trimmed.
Skipped(value) ==
    \E n \in 0..Len(value) :
        /\ \A k \in 1..n : value[k] = " "
        /\ n = Len(value) \/ value[n + 1] = ","

\* The headers, by position in CONFIG.ipHeaders, that the request carries
\* and that are not skipped
UsedHeaders(h) ==
    {i \in 1..Len(ipHeaders) : ipHeaders[i] \in DOMAIN h /\ ~Skipped(h[ipHeaders[i]])}

\* C30: the derived identity is never the empty string, and has no comma and
\* no whitespace at its ends. A header whose first comma-separated element
\* is empty after trimming (",1", " ", "") is skipped with its later
\* elements, and the next header in priority order is tried: the identity
\* is the address of the first header that is not skipped, and "unknown" if
\* all are skipped or absent.
C30_NeverEmpty ==
    req.pc = "decided" =>
        /\ req.ip # <<>>
        /\ Head(req.ip) # " " /\ req.ip[Len(req.ip)] # " "
        /\ \A k \in 1..Len(req.ip) : req.ip[k] # ","
        /\ IF UsedHeaders(req.headers) = {} THEN req.ip = unknown
           ELSE req.ip = <<DigitChar[Least(UsedHeaders(req.headers)) + 1]>>
        /\ \A i \in 1..Len(ipHeaders) :
              (ipHeaders[i] \in DOMAIN req.headers
                  /\ req.headers[ipHeaders[i]] = <<",", DigitChar[i + 1]>>)
                      => req.ip # <<DigitChar[i + 1]>>

\* A blank first header and a second header starting with a comma were
\* skipped; the identity came from the third.
C30_Witness ==
    /\ req.pc = "decided"
    /\ {"x-forwarded-for", "x-real-ip", "cf-connecting-ip"} \subseteq DOMAIN req.headers
    /\ req.headers["x-forwarded-for"] = <<" ">>
    /\ req.headers["x-real-ip"] = <<",", "2">>
    /\ req.headers["cf-connecting-ip"] = <<" ", "3", " ", ",", "9">>
    /\ req.ip = <<"3">>
    /\ last[req.ip].at = now

=============================================================================
